---- MODULE Spec2Model ----
(***************************************************************************)
(* Exposure Notification key matching (exposurenotification/src/main/cpp). *)
(*                                                                         *)
(* PrefixIdMap      prefix_id_map.{h,cc}   sorted, prefix-bucketed records *)
(* KeyFileIterator  key_file_parser.{h,cc} pull iterator over a key file   *)
(* MatchingHelper   matching_helper.{h,cc} derive, probe, collect          *)
(*                                                                         *)
(* Identifiers (RPIs, scan records) are strings of kIdLength bytes, each   *)
(* byte in 0..ByteBase-1: ByteBase stands for 256 and is scaled down, so   *)
(* that the prefix table has ByteBase^2 entries.  Every definition is      *)
(* written in terms of the name.  Key-file bytes, TEK bytes and plaintext  *)
(* blocks are real octets (0..255).                                        *)
(***************************************************************************)
EXTENDS Integers, Sequences, FiniteSets, TLC

\* ------------------------------------------------------------------ widths
\* Values one identifier byte can take (256 in the build).
ByteBase == 2
\* constants.h
kIdLength == 16
\* Largest number of scan records handed to the PrefixIdMap constructor.
MaxRecords == 3
\* Most crypto failures the library reports within one call.
MaxCryptoFaults == 1

\* prefix_id_map.h: kIdPrefixIndexSize, one entry per 2-byte prefix.
kIdPrefixIndexSize == ByteBase * ByteBase

VARIABLES
  ble_scan_records,   \* the byte[][] handed to the constructor (not owned)
  scan_records,       \* PrefixIdMap::scan_records
  scan_record_size,   \* PrefixIdMap::scan_record_size
  prefix_end_index,   \* PrefixIdMap::prefix_end_index
  probe,              \* the host's last GetIdIndex call: << >> or <<[id, ret]>>
  aesInputStorage,    \* MatchingHelper::aesInputStorage, one entry per block
  context,            \* MatchingHelper::context: the key it was last set up with
  last_processed_key_count,
  pc,                 \* where the running call stands ("idle": no call)
  key_files,          \* Matching: the key_files argument
  file_idx,           \* Matching: position of the for loop in key_files
  matched_keys,       \* Matching: matched_keys
  key,                \* Matching: the key Next() returned
  pb_istream_,        \* KeyFileIterator::pb_istream_ with the FILE it reads
  next_tag_,          \* KeyFileIterator::next_tag_
  file_,              \* KeyFileIterator::file_: an entry of opened, 0 with no iterator
  opened,             \* history: the FILEs fopen returned in the last Matching
  returned,           \* what the last call returned to the host
  yielded,            \* history: the keys Next() returned in the last Matching
  derived,            \* history: GenerateIds' result for each of them
  crypto_faults,      \* history: crypto failures in the running call
  derivations,        \* history: the GenerateIds calls of the last step that derived
  legacy_call         \* history: the arguments of the last MatchingLegacy

mapvars == <<ble_scan_records, scan_records, scan_record_size, prefix_end_index>>
probevars == <<probe>>
helpervars == <<aesInputStorage, context, last_processed_key_count>>
callvars == <<pc, key_files, file_idx, matched_keys, key>>
itervars == <<pb_istream_, next_tag_, file_>>
filevars == <<opened>>
histvars == <<returned, yielded, derived, crypto_faults, derivations, legacy_call>>
vars == <<mapvars, probevars, helpervars, callvars, itervars, filevars, histvars>>

\* ------------------------------------------------------------ PrefixIdMap
\* memcpy of the first two bytes into a uint16_t on a little-endian build.
GetPrefixInner(id) == id[1] + ByteBase * id[2]

GetPrefix(id) == GetPrefixInner(id)

\* The comparator handed to std::sort: by prefix only.
Compare(lhs, rhs) == GetPrefixInner(lhs) < GetPrefixInner(rhs)

\* std::sort(begin, end, Compare): some permutation of the input in which no
\* element compares less than an earlier one.  std::sort is not stable, so
\* the order among records of equal prefix is whatever the build produces.
StdSort(records) ==
  LET n == Len(records)
      perms == { [i \in 1..n |-> records[p[i]]] : p \in Permutations(1..n) }
  IN { s \in perms : \A i \in 1..n : \A j \in i+1..n : ~Compare(s[j], s[i]) }

\* while (last_prefix < prefix) prefix_end_index[last_prefix++] = i;
RECURSIVE FillUpTo(_, _, _, _)
FillUpTo(pe, last_prefix, prefix, i) ==
  IF last_prefix < prefix
    THEN FillUpTo([pe EXCEPT ![last_prefix] = i], last_prefix + 1, prefix, i)
    ELSE [pe |-> pe, last_prefix |-> last_prefix]

\* for (int i = 0; i < scan_record_size; i++) { prefix = GetPrefix(...); while ... }
RECURSIVE SweepRecords(_, _, _, _)
SweepRecords(records, pe, last_prefix, i) ==
  IF i < Len(records)
    THEN LET w == FillUpTo(pe, last_prefix, GetPrefix(records[i + 1]), i)
         IN SweepRecords(records, w.pe, w.last_prefix, i + 1)
    ELSE [pe |-> pe, last_prefix |-> last_prefix]

\* BuildPrefixEndIndex without the loop that fills the tail of the table.
BuildPrefixEndIndex_NoTail(records) ==
  SweepRecords(records, [p \in 0..kIdPrefixIndexSize - 1 |-> 0], 0, 0).pe

\* The table the constructor leaves: memset to 0, the sweep over the sorted
\* records, then while (last_prefix < kIdPrefixIndexSize) ... = scan_record_size.
BuildPrefixEndIndex(records) ==
  LET zero == [p \in 0..kIdPrefixIndexSize - 1 |-> 0]
      s == SweepRecords(records, zero, 0, 0)
  IN FillUpTo(s.pe, s.last_prefix, kIdPrefixIndexSize, Len(records)).pe

\* for (; start_index < end_index; start_index++) if (memcmp(...) == 0) return
RECURSIVE ScanBucket(_, _, _, _)
ScanBucket(records, id, start_index, end_index) ==
  IF start_index < end_index
    THEN IF \A b \in 1..kIdLength : id[b] = records[start_index + 1][b]
           THEN start_index
           ELSE ScanBucket(records, id, start_index + 1, end_index)
    ELSE -1

\* GetIdIndexOn with the bucket taken to start where it ends for prefix 0.
GetIdIndexOn_BadStart(records, pe, id) ==
  LET prefix == GetPrefix(id)
  IN ScanBucket(records, id, pe[0], pe[prefix])

\* PrefixIdMap::GetIdIndex on a map with the given fields.
GetIdIndexOn(records, pe, id) ==
  LET prefix == GetPrefix(id)
      start_index == IF prefix > 0 THEN pe[prefix - 1] ELSE 0
      end_index == pe[prefix]
  IN ScanBucket(records, id, start_index, end_index)

GetIdIndex(id) == GetIdIndexOn(scan_records, prefix_end_index, id)

\* The state PrefixIdMap::PrefixIdMap leaves for the given input array.
PrefixIdMapCtor(input) ==
  /\ ble_scan_records = input
  /\ scan_record_size = Len(input)
  /\ scan_records \in StdSort(input)
  /\ prefix_end_index = BuildPrefixEndIndex(scan_records)

\* ------------------------------------------------------- the key file
\* A key file on disk: its octets, the offset at which the device fails a
\* read (-1: never), and whether fopen succeeds.
KeyFile(bytes, err_at, openable) ==
  [bytes |-> bytes, err_at |-> err_at, openable |-> openable]

Min(a, b) == IF a < b THEN a ELSE b
Max(a, b) == IF a < b THEN b ELSE a

\* F of the value of x, with x worked out once however often F uses it.
With(x, F(_)) == CHOOSE y \in { F(v) : v \in {x} } : TRUE

\* A stream value st carries the FILE the callback reads (offset pos, the
\* sticky ferror and feof indicators) and the bytes_left of one pb_istream_t.
\* fread(buffer, 1, size, file): the octets up to the end of the file or the
\* failing offset, setting the end-of-file or the error indicator when short.
fread(f, st, size) ==
  IF st.err THEN [count |-> 0, data |-> << >>, st |-> st]
  ELSE With(IF f.err_at >= 0 THEN Min(f.err_at, Len(f.bytes)) ELSE Len(f.bytes),
         LAMBDA limit :
           With(Min(size, Max(0, limit - st.pos)),
             LAMBDA n :
               [count |-> n,
                data |-> SubSeq(f.bytes, st.pos + 1, st.pos + n),
                st |-> [st EXCEPT
                          !.pos = st.pos + n,
                          !.err = n < size /\ limit = f.err_at,
                          !.eof = st.eof \/ (n < size /\ limit # f.err_at)]]))

\* The nanopb read callback of key_file_parser.cc.
ReadFromFileToStream(f, st, size) ==
  With(fread(f, st, size),
    LAMBDA r :
      IF r.st.err
        THEN [ok |-> FALSE, data |-> r.data, st |-> r.st]
        ELSE [ok |-> r.count = size,
              data |-> r.data,
              st |-> IF r.st.eof THEN [r.st EXCEPT !.bytes_left = 0] ELSE r.st])

\* numeric_limits<size_t>::max(), held to the largest integer TLC
\* represents; no read of the model comes near it.
SIZE_MAX == 2147483647

\* CreatePbInputStream over a freshly opened file.
CreatePbInputStream == [pos |-> 0, err |-> FALSE, eof |-> FALSE, bytes_left |-> SIZE_MAX]

\* ----------------------------------------------- nanopb (pb_decode.c)
\* pb_read into a buffer.
pb_read(f, st, count) ==
  IF count = 0 THEN [ok |-> TRUE, data |-> << >>, st |-> st]
  ELSE IF st.bytes_left < count THEN [ok |-> FALSE, data |-> << >>, st |-> st]
  ELSE With(ReadFromFileToStream(f, st, count),
         LAMBDA r :
           IF ~r.ok THEN r
           ELSE [r EXCEPT !.st.bytes_left = r.st.bytes_left - count])

\* pb_read with a NULL buffer on a callback stream: 16 octets at a time.
RECURSIVE pb_read_skip(_, _, _)
pb_read_skip(f, st, count) ==
  With(pb_read(f, st, Min(count, 16)),
    LAMBDA r :
      IF count > 16 /\ r.ok
        THEN pb_read_skip(f, r.st, count - 16)
        ELSE [ok |-> r.ok, st |-> r.st])

pb_readbyte(f, st) ==
  IF st.bytes_left = 0 THEN [ok |-> FALSE, byte |-> 0, st |-> st]
  ELSE With(ReadFromFileToStream(f, st, 1),
         LAMBDA r :
           IF ~r.ok THEN [ok |-> FALSE, byte |-> 0, st |-> r.st]
           ELSE [ok |-> TRUE, byte |-> r.data[1],
                 st |-> [r.st EXCEPT !.bytes_left = r.st.bytes_left - 1]])

\* The continuation octets of a varint, least significant group first.
RECURSIVE VarintRest(_, _)
VarintRest(f, st) ==
  With(pb_readbyte(f, st),
    LAMBDA b :
      IF ~b.ok THEN [ok |-> FALSE, value |-> 0, st |-> b.st]
      ELSE IF b.byte < 128 THEN [ok |-> TRUE, value |-> b.byte, st |-> b.st]
      ELSE With(VarintRest(f, b.st),
             LAMBDA r :
               [ok |-> r.ok, value |-> (b.byte % 128) + 128 * r.value, st |-> r.st]))

\* pb_decode_varint32_eof: eof is reported only when the first octet cannot
\* be read and the stream then has no bytes left.
pb_decode_varint32_eof(f, st) ==
  With(pb_readbyte(f, st),
    LAMBDA b :
      IF ~b.ok
        THEN [ok |-> FALSE, eof |-> b.st.bytes_left = 0, value |-> 0, st |-> b.st]
      ELSE IF b.byte < 128
        THEN [ok |-> TRUE, eof |-> FALSE, value |-> b.byte, st |-> b.st]
      ELSE With(VarintRest(f, b.st),
             LAMBDA r :
               [ok |-> r.ok, eof |-> FALSE,
                value |-> IF r.ok THEN (b.byte % 128) + 128 * r.value ELSE 0,
                st |-> r.st]))

\* pb_decode_tag that leaves a tag of 1 when no varint was read.
pb_decode_tag_NoSentinel(f, st) ==
  With(pb_decode_varint32_eof(f, st),
    LAMBDA v :
      [ok |-> v.ok, eof |-> v.eof,
       tag |-> IF v.ok THEN v.value \div 8 ELSE 1,
       wire_type |-> IF v.ok THEN v.value % 8 ELSE 0,
       st |-> v.st])

\* pb_decode_tag: tag and wire type are 0 unless a varint was read.
pb_decode_tag(f, st) ==
  With(pb_decode_varint32_eof(f, st),
    LAMBDA v :
      [ok |-> v.ok, eof |-> v.eof,
       tag |-> IF v.ok THEN v.value \div 8 ELSE 0,
       wire_type |-> IF v.ok THEN v.value % 8 ELSE 0,
       st |-> v.st])

RECURSIVE pb_skip_varint(_, _)
pb_skip_varint(f, st) ==
  With(pb_read(f, st, 1),
    LAMBDA r :
      IF ~r.ok THEN [ok |-> FALSE, st |-> r.st]
      ELSE IF r.data[1] >= 128 THEN pb_skip_varint(f, r.st)
      ELSE [ok |-> TRUE, st |-> r.st])

pb_skip_string(f, st) ==
  With(pb_decode_varint32_eof(f, st),
    LAMBDA v :
      IF ~v.ok THEN [ok |-> FALSE, st |-> v.st]
      ELSE pb_read_skip(f, v.st, v.value))

\* pb_skip_field that reads the length of a string and not its octets.
pb_skip_field_NoString(f, st, wire_type) ==
  CASE wire_type = 0 -> pb_skip_varint(f, st)
    [] wire_type = 1 -> pb_read_skip(f, st, 8)
    [] wire_type = 2 -> With(pb_decode_varint32_eof(f, st),
                          LAMBDA v : [ok |-> v.ok, st |-> v.st])
    [] wire_type = 5 -> pb_read_skip(f, st, 4)
    [] OTHER -> [ok |-> FALSE, st |-> st]

\* pb_skip_field: by wire type; any other wire type is an error that reads
\* nothing.
pb_skip_field(f, st, wire_type) ==
  CASE wire_type = 0 -> pb_skip_varint(f, st)          \* PB_WT_VARINT
    [] wire_type = 1 -> pb_read_skip(f, st, 8)         \* PB_WT_64BIT
    [] wire_type = 2 -> pb_skip_string(f, st)          \* PB_WT_STRING
    [] wire_type = 5 -> pb_read_skip(f, st, 4)         \* PB_WT_32BIT
    [] OTHER -> [ok |-> FALSE, st |-> st]

\* ------------------------------------- TemporaryExposureKey on the wire
\* constants.h
kTekLength == 16
kRpikLength == 16
kIdPerKey == 144
kRpiPaddedDataLength == 12
\* "EN-RPI" and six zero octets.
kRpiPaddedData == <<69, 78, 45, 82, 80, 73, 0, 0, 0, 0, 0, 0>>
\* "EN-RPIK"
kHkdfInfo == <<69, 78, 45, 82, 80, 73, 75>>

\* The field number of TemporaryExposureKeyExport.keys in the export schema.
TemporaryExposureKeyExportNano_keys_tag == 7

\* TemporaryExposureKeyNano_init_default: nothing present, all zero.
TemporaryExposureKeyNano_init_default ==
  [has_key_data |-> FALSE, key_data |-> << >>,
   has_rolling_start_interval_number |-> FALSE,
   rolling_start_interval_number |-> 0]

\* pb_decode over TemporaryExposureKeyNano_fields: field 1 is key_data
\* (bytes, at most kTekLength), field 3 rolling_start_interval_number,
\* fields 2, 4, 5, 6 further varint fields that are read and not used
\* here; any other field is skipped.  End of stream before a tag ends the
\* message; any other failure fails the decode.
RECURSIVE pb_decode(_, _, _)
pb_decode(f, st, dest) ==
  IF st.bytes_left = 0 THEN [ok |-> TRUE, key |-> dest, st |-> st]
  ELSE
    With(pb_decode_tag(f, st),
      LAMBDA t :
        IF ~t.ok THEN [ok |-> t.eof, key |-> dest, st |-> t.st]
        ELSE IF t.tag = 0 THEN [ok |-> FALSE, key |-> dest, st |-> t.st]
        ELSE IF t.tag = 1 THEN
          IF t.wire_type # 2 THEN [ok |-> FALSE, key |-> dest, st |-> t.st]
          ELSE With(pb_decode_varint32_eof(f, t.st),
                 LAMBDA n :
                   IF ~n.ok \/ n.value > kTekLength
                     THEN [ok |-> FALSE, key |-> dest, st |-> n.st]
                     ELSE With(pb_read(f, n.st, n.value),
                            LAMBDA r :
                              IF ~r.ok THEN [ok |-> FALSE, key |-> dest, st |-> r.st]
                              ELSE pb_decode(f, r.st,
                                     [dest EXCEPT !.has_key_data = TRUE,
                                                  !.key_data = r.data])))
        ELSE IF t.tag \in 2..6 THEN
          IF t.wire_type # 0 THEN [ok |-> FALSE, key |-> dest, st |-> t.st]
          ELSE With(pb_decode_varint32_eof(f, t.st),
                 LAMBDA v :
                   IF ~v.ok THEN [ok |-> FALSE, key |-> dest, st |-> v.st]
                   ELSE pb_decode(f, v.st,
                          IF t.tag = 3
                            THEN [dest EXCEPT
                                    !.has_rolling_start_interval_number = TRUE,
                                    !.rolling_start_interval_number = v.value]
                            ELSE dest))
        ELSE With(pb_skip_field(f, t.st, t.wire_type),
               LAMBDA k :
                 IF ~k.ok THEN [ok |-> FALSE, key |-> dest, st |-> k.st]
                 ELSE pb_decode(f, k.st, dest)))

\* pb_decode_delimited: pb_make_string_substream (a length, then a stream
\* of that many bytes on the same FILE), pb_decode, then
\* pb_close_string_substream, which reads what the submessage left unread.
\* The stream returned is the parent: the FILE as the substream left it and
\* the parent's own bytes_left.
pb_decode_delimited(f, st, dest) ==
  With(pb_decode_varint32_eof(f, st),
    LAMBDA n :
      IF ~n.ok \/ n.st.bytes_left < n.value
        THEN [ok |-> FALSE, key |-> dest, st |-> n.st]
        ELSE With(pb_decode(f, [n.st EXCEPT !.bytes_left = n.value], dest),
               LAMBDA d :
                 With(IF d.st.bytes_left > 0
                        THEN pb_read_skip(f, d.st, d.st.bytes_left)
                        ELSE [ok |-> TRUE, st |-> d.st],
                   LAMBDA c :
                     [ok |-> c.ok /\ d.ok, key |-> d.key,
                      st |-> [c.st EXCEPT !.bytes_left = n.st.bytes_left - n.value]])))

\* A varint on the wire.
RECURSIVE Varint(_)
Varint(n) == IF n < 128 THEN <<n>> ELSE <<128 + (n % 128)>> \o Varint(n \div 128)

WireTag(field, wire_type) == Varint(field * 8 + wire_type)

\* nanopb_encoder.cc: pb_encode of the fields that are present.
EncodeTemporaryExposureKey(tek) ==
  (IF tek.has_key_data
     THEN WireTag(1, 2) \o Varint(Len(tek.key_data)) \o tek.key_data ELSE << >>)
  \o (IF tek.has_rolling_start_interval_number
        THEN WireTag(3, 0) \o Varint(tek.rolling_start_interval_number) ELSE << >>)

\* ------------------------------------------------------ KeyFileIterator
\* "EK Export v1    "
kFileHeader == <<69, 75, 32, 69, 120, 112, 111, 114, 116, 32, 118, 49, 32, 32, 32, 32>>
kFileHeaderSize == Len(kFileHeader)

\* VerifyHeader without the comparison.
VerifyHeader_NoCompare(f, st) ==
  With(pb_read(f, st, kFileHeaderSize), LAMBDA r : [ok |-> TRUE, st |-> r.st])

\* VerifyHeader: the buffer starts as zeros, pb_read's result is not looked
\* at, and the buffer is compared with the literal.
VerifyHeader(f, st) ==
  With(pb_read(f, st, kFileHeaderSize),
    LAMBDA r :
      [ok |-> [i \in 1..kFileHeaderSize |->
                 IF i <= Len(r.data) THEN r.data[i] ELSE 0] = kFileHeader,
       st |-> r.st])

IsTagForKeys(tag) == tag = TemporaryExposureKeyExportNano_keys_tag

\* One pass of the loop of ReadUntilNextKeyTagOrEnd: the tag read, the stream
\* after the pass, and whether the loop goes round again.
ReadUntilNextKeyTagOrEndPass(f, st) ==
  With(pb_decode_tag(f, st),
    LAMBDA t :
      IF IsTagForKeys(t.tag)
        THEN [next_tag |-> t.tag, st |-> t.st, again |-> FALSE]
        ELSE [next_tag |-> t.tag,
              st |-> pb_skip_field(f, t.st, t.wire_type).st,
              again |-> ~t.eof])

\* ---------------------------------------------------- derivation of RPIs
\* A uint32_t as its four octets in memory on the little-endian build; n is
\* an int32_t or a uint32_t below 2^31.
RECURSIVE LeOctets(_, _)
LeOctets(n, count) ==
  IF count = 0 THEN << >> ELSE <<n % 256>> \o LeOctets(n \div 256, count - 1)

U32(n) ==
  IF n >= 0 THEN LeOctets(n, 4)
  ELSE LET m == LeOctets(-n - 1, 4) IN [i \in 1..4 |-> 255 - m[i]]

\* The increments without the carry out of the low octet.
U32Add_NoCarry(octets, k) ==
  <<(octets[1] + k) % 256, octets[2], octets[3], octets[4]>>

\* A uint32_t after k increments (en_interval_number++ k times, k below
\* 256): addition with carry through the four octets, wrapping at 2^32.
U32Add(octets, k) ==
  LET s1 == octets[1] + k
      s2 == octets[2] + (s1 \div 256)
      s3 == octets[3] + (s2 \div 256)
      s4 == octets[4] + (s3 \div 256)
  IN <<s1 % 256, s2 % 256, s3 % 256, s4 % 256>>

\* The primitives are outside the repository.  They are modelled by
\* functions with the property the matching relies on: under one key,
\* distinct plaintext blocks of one day and of the days next to it encrypt
\* to distinct identifiers.
CipherSpan == ByteBase * ByteBase * ByteBase * ByteBase * ByteBase * ByteBase
                * ByteBase * ByteBase * ByteBase * ByteBase * ByteBase * ByteBase

RECURSIVE OctetsMod(_, _, _)
\* The little-endian number held in octets[1..i], modulo CipherSpan.
OctetsMod(octets, i, acc) ==
  IF i = 0 THEN acc
  ELSE OctetsMod(octets, i - 1, (acc * 256 + octets[i]) % CipherSpan)

\* HKDF(out, kRpikLength, EVP_sha256(), ikm, kTekLength, no salt, info).
HKDF(ikm, info) ==
  [i \in 1..kRpikLength |->
     ((IF i <= Len(ikm) THEN ikm[i] ELSE 0) + info[((i - 1) % Len(info)) + 1]) % 256]

RECURSIVE Digits(_, _)
Digits(n, count) ==
  IF count = 0 THEN << >> ELSE <<n % ByteBase>> \o Digits(n \div ByteBase, count - 1)

\* What the cipher context keeps of rpi_key once it is set up.
KeySchedule(rpi_key) == OctetsMod(rpi_key, Len(rpi_key), 0)

\* AES-128-ECB of one block under a key schedule.
AesEncryptWith(schedule, block) ==
  LET head == SubSeq(block, 1, kRpiPaddedDataLength)
      tail == SubSeq(block, kRpiPaddedDataLength + 1, Len(block))
      n == (schedule + OctetsMod(head, Len(head), 0)
              + OctetsMod(tail, Len(tail), 0)) % CipherSpan
  IN Digits(n, kIdLength)

\* AES-128-ECB of one block under rpi_key.
AesEncryptBlock(rpi_key, block) == AesEncryptWith(KeySchedule(rpi_key), block)

\* EVP_EncryptUpdate over the whole storage: one identifier per block.
EVP_EncryptUpdate(ctx, storage) ==
  With(KeySchedule(ctx),
    LAMBDA schedule : [i \in 1..Len(storage) |-> AesEncryptWith(schedule, storage[i])])

\* What the crypto library reports in one GenerateIds call: success, or the
\* first call that does not return 1.
CryptoOutcomes == {"ok", "HKDF", "EVP_EncryptInit_ex", "EVP_EncryptUpdate"}

\* WriteIntervals with the increment ahead of the store.
WriteIntervals_FromOne(storage, rolling_start_number) ==
  [block \in 1..kIdPerKey |->
     SubSeq(storage[block], 1, 12) \o U32Add(rolling_start_number, block)]

\* for (index = 0; ...; index += kIdLength, en_interval_number++)
\*   *((uint32_t *) (&aesInputStorage[index + 12])) = en_interval_number;
\* The block at index/kIdLength gets the start after that many increments.
WriteIntervals(storage, rolling_start_number) ==
  [block \in 1..kIdPerKey |->
     SubSeq(storage[block], 1, 12) \o U32Add(rolling_start_number, block - 1)]

\* MatchingHelper::GenerateIds on the given aesInputStorage and context;
\* rolling_start_number is the uint32_t argument as its four octets.
GenerateIds(storage, ctx, diagnosis_key, rolling_start_number, outcome) ==
  IF outcome \in {"HKDF", "EVP_EncryptInit_ex"}
    THEN [ok |-> FALSE, storage |-> storage, ctx |-> ctx, ids |-> << >>]
    ELSE With(HKDF(diagnosis_key, kHkdfInfo),
           LAMBDA rpi_key :
             With(WriteIntervals(storage, rolling_start_number),
               LAMBDA written :
                 IF outcome = "EVP_EncryptUpdate"
                   THEN [ok |-> FALSE, storage |-> written, ctx |-> rpi_key,
                         ids |-> << >>]
                   ELSE [ok |-> TRUE, storage |-> written, ctx |-> rpi_key,
                         ids |-> EVP_EncryptUpdate(rpi_key, written)]))

\* The constructor's loop: every block starts with kRpiPaddedData.  The four
\* octets after it are not set; GenerateIds writes them before anything
\* reads them, and they are shown as zero.
InitialStorage ==
  [i \in 1..kIdPerKey |-> kRpiPaddedData \o <<0, 0, 0, 0>>]

\* key->key_data.bytes: the kTekLength octets of the struct's array.
KeyBytes(tek) ==
  [i \in 1..kTekLength |-> IF i <= Len(tek.key_data) THEN tek.key_data[i] ELSE 0]

\* ProbeIds with the break left out: one entry for every identifier found.
ProbeIds_NoBreak(records, pe, ids, found, item) ==
  LET hits == { j \in 1..Len(ids) : GetIdIndexOn(records, pe, ids[j]) >= 0 }
  IN found \o [k \in 1..(IF hits = {} THEN 0 ELSE Cardinality(hits)) |-> item]

\* ProbeIds that looks at the first identifier only.
ProbeIds_FirstOnly(records, pe, ids, found, item) ==
  IF Len(ids) > 0 /\ GetIdIndexOn(records, pe, ids[1]) >= 0
    THEN Append(found, item)
    ELSE found

\* for (j = 0; ...; j += kIdLength)
\*   if (GetIdIndex(&ids[j]) >= 0) { emplace_back / push_back; break; }
\* The item is appended once, at the first identifier found, if there is one.
ProbeIds(records, pe, ids, found, item) ==
  IF \E id \in { ids[j] : j \in 1..Len(ids) } : GetIdIndexOn(records, pe, id) >= 0
    THEN Append(found, item)
    ELSE found

\* ------------------------------------------------- the map on its own
\* Identifiers with each prefix byte at its least or greatest value and a
\* body of all 0 or all 1: prefix 0, the greatest prefix, two in between.
CornerIds ==
  { [b \in 1..kIdLength |-> IF b = 1 THEN lo ELSE IF b = 2 THEN hi ELSE body] :
      lo \in {0, ByteBase - 1}, hi \in {0, ByteBase - 1}, body \in {0, 1} }

RECURSIVE SeqsUpTo(_, _)
SeqsUpTo(S, n) ==
  IF n = 0 THEN { <<>> }
  ELSE LET shorter == SeqsUpTo(S, n - 1)
       IN shorter \cup { Append(s, x) : s \in { t \in shorter : Len(t) = n - 1 }, x \in S }

\* No iterator: the stream of a closed file.
NoStream == [pos |-> 0, err |-> FALSE, eof |-> FALSE, bytes_left |-> 0]

\* No MatchingLegacy call yet.
NoCall == [diagnosis_keys |-> << >>, rolling_start_numbers |-> << >>, key_count |-> -1]

\* Nothing returned yet.
NoReturn == [call |-> "none", null |-> TRUE, keys |-> << >>, indexes |-> << >>]

\* The state MatchingHelper::MatchingHelper leaves, with no call running.
MatchingHelperCtor ==
  /\ aesInputStorage = InitialStorage
  /\ context = << >>
  /\ last_processed_key_count = 0
  /\ pc = "idle"
  /\ key_files = << >>
  /\ file_idx = 0
  /\ matched_keys = << >>
  /\ key = TemporaryExposureKeyNano_init_default
  /\ pb_istream_ = NoStream
  /\ next_tag_ = 0
  /\ file_ = 0
  /\ opened = << >>
  /\ returned = NoReturn
  /\ yielded = << >>
  /\ derived = << >>
  /\ crypto_faults = 0
  /\ derivations = << >>
  /\ legacy_call = NoCall

MapInit ==
  /\ \E input \in SeqsUpTo(CornerIds, MaxRecords) : PrefixIdMapCtor(input)
  /\ probe = << >>
  /\ MatchingHelperCtor

\* The host probes the map with one identifier.
Probe ==
  /\ \E id \in CornerIds : probe' = << [id |-> id, ret |-> GetIdIndex(id)] >>
  /\ UNCHANGED <<mapvars, helpervars, callvars, itervars, filevars, histvars>>

MapNext == Probe

SpecMap == MapInit /\ [][MapNext]_vars

\* ------------------------------------------------ inputs of the engine
Tek(key_data, rolling_start_interval_number) ==
  [has_key_data |-> TRUE, key_data |-> key_data,
   has_rolling_start_interval_number |-> TRUE,
   rolling_start_interval_number |-> rolling_start_interval_number]

KeyA == [i \in 1..kTekLength |-> 0]
KeyB == [i \in 1..kTekLength |-> 17]

\* One keys record of the export: tag, length, the encoded key.
KeysRecord(tek) ==
  LET payload == EncodeTemporaryExposureKey(tek)
  IN WireTag(TemporaryExposureKeyExportNano_keys_tag, 2) \o Varint(Len(payload)) \o payload

\* Fields of the export other than keys, one of each wire type; the string
\* and the 64-bit value hold the octet of the keys tag.
Fixed64Field == WireTag(1, 1) \o <<58, 1, 0, 0, 0, 0, 0, 0>>
VarintField == WireTag(4, 0) \o Varint(300)
StringField == WireTag(3, 2) \o Varint(2) \o <<58, 2>>
Fixed32Field == WireTag(9, 5) \o <<7, 0, 0, 0>>
LongStringField == WireTag(20, 2) \o Varint(18) \o [i \in 1..18 |-> 58]

\* A record of an export as the host wrote it: its octets, whether it carries
\* the keys tag, and the key it holds when it is a well-formed keys record.
KeysPart(tek) == [octets |-> KeysRecord(tek), tagged |-> TRUE, keys |-> <<tek>>]
OtherPart(octets) == [octets |-> octets, tagged |-> FALSE, keys |-> << >>]

\* The keys record of Tek(KeyB, 0) with its payload cut after 8 of the 16
\* octets of key_data, the length before it saying so.
CutRecord ==
  LET payload == SubSeq(EncodeTemporaryExposureKey(Tek(KeyB, 0)), 1, 10)
  IN WireTag(TemporaryExposureKeyExportNano_keys_tag, 2) \o Varint(Len(payload)) \o payload

CutPart == [octets |-> CutRecord, tagged |-> TRUE, keys |-> << >>]

\* The records of each file the host can name, after its 16 header octets.
Parts ==
  [name \in {"a", "a144", "ab", "aa", "other", "corrupt", "cut", "ioerr",
             "header", "short", "missing", "empty"} |->
     CASE name \in {"a", "header", "missing"} -> <<KeysPart(Tek(KeyA, 0))>>
       [] name = "a144" -> <<KeysPart(Tek(KeyA, kIdPerKey))>>
       [] name \in {"ab", "cut"} -> <<KeysPart(Tek(KeyA, 0)), KeysPart(Tek(KeyB, 0))>>
       [] name = "aa" -> <<KeysPart(Tek(KeyA, 0)), KeysPart(Tek(KeyA, 0))>>
       [] name = "other" ->
            <<OtherPart(Fixed64Field), OtherPart(VarintField), KeysPart(Tek(KeyA, 0)),
              OtherPart(StringField), OtherPart(Fixed32Field), KeysPart(Tek(KeyB, 0)),
              OtherPart(LongStringField), OtherPart(VarintField)>>
       [] name = "corrupt" ->
            <<KeysPart(Tek(KeyA, 0)), CutPart, KeysPart(Tek(KeyA, 0))>>
       [] name = "ioerr" ->
            <<KeysPart(Tek(KeyA, 0)), OtherPart(VarintField), KeysPart(Tek(KeyB, 0))>>
       [] OTHER -> << >> ]

\* The octets of the first count records.
RECURSIVE PartsOctets(_, _)
PartsOctets(parts, count) ==
  IF count = 0 THEN << >>
  ELSE PartsOctets(parts, count - 1) \o parts[count].octets

Export(parts) == kFileHeader \o PartsOctets(parts, Len(parts))

\* The files: "cut" ends 5 octets early, "ioerr" fails every read past the
\* first octet after its first record, "header" has a wrong last header
\* octet, "short" is 15 octets long, "missing" cannot be opened.
FileSystem ==
  [name \in DOMAIN Parts |->
     CASE name = "cut" ->
            KeyFile(SubSeq(Export(Parts[name]), 1, Len(Export(Parts[name])) - 5), -1, TRUE)
       [] name = "ioerr" ->
            KeyFile(Export(Parts[name]),
                    kFileHeaderSize + Len(Parts[name][1].octets) + 1, TRUE)
       [] name = "header" ->
            KeyFile([Export(Parts[name]) EXCEPT ![kFileHeaderSize] = 33], -1, TRUE)
       [] name = "short" -> KeyFile(SubSeq(kFileHeader, 1, kFileHeaderSize - 1), -1, TRUE)
       [] name = "missing" -> KeyFile(Export(Parts[name]), -1, FALSE)
       [] OTHER -> KeyFile(Export(Parts[name]), -1, TRUE) ]

\* The key_files arguments the host passes: no file, each kind of file on its
\* own, a file after a source that gives no iterator, a key in two files.
KeyFileLists ==
  { << >>, <<"a">>, <<"a144">>, <<"ab">>, <<"aa">>, <<"other">>, <<"corrupt">>,
    <<"cut">>, <<"ioerr">>, <<"empty">>, <<"header">>, <<"header", "a">>,
    <<"short", "ab">>, <<"missing", "a">>, <<"a", "missing">>, <<"ab", "a">>,
    <<"ioerr", "a">> }

\* The identifier a key broadcasts in the given interval (an int32_t).
Rpi(key_data, interval) ==
  AesEncryptBlock(HKDF(key_data, kHkdfInfo), kRpiPaddedData \o U32(interval))

\* The scan records the host constructs the engine with: two identifiers of
\* KeyA's day 0, one of them twice; or the first identifier of KeyB's day 0
\* and the last one of KeyA's day 0.
ScanInputs ==
  { << Rpi(KeyA, 72), Rpi(KeyA, 72), Rpi(KeyA, 73) >>,
    << Rpi(KeyB, 0), Rpi(KeyA, kIdPerKey - 1) >> }

\* The arguments of the MatchingLegacy calls the host makes.
LegacyCalls ==
  { [diagnosis_keys |-> << >>, rolling_start_numbers |-> << >>, key_count |-> 0],
    [diagnosis_keys |-> <<KeyA>>, rolling_start_numbers |-> <<0>>, key_count |-> 1],
    [diagnosis_keys |-> <<KeyA>>, rolling_start_numbers |-> <<-1>>, key_count |-> 1],
    [diagnosis_keys |-> <<KeyA, KeyB>>, rolling_start_numbers |-> <<kIdPerKey, 0>>,
     key_count |-> 2],
    [diagnosis_keys |-> <<KeyA, KeyB>>, rolling_start_numbers |-> <<0, 0>>,
     key_count |-> 2],
    [diagnosis_keys |-> <<KeyA, KeyB>>, rolling_start_numbers |-> <<0, 0>>,
     key_count |-> 1],
    [diagnosis_keys |-> <<KeyA, KeyB>>, rolling_start_numbers |-> <<0>>,
     key_count |-> 2] }

\* --------------------------------------------------------- MatchingHelper
Init ==
  /\ \E input \in ScanInputs : PrefixIdMapCtor(input)
  /\ probe = << >>
  /\ MatchingHelperCtor

CurrentFile == CHOOSE f \in {FileSystem[key_files[file_idx]]} : TRUE

\* The crypto outcomes the library may report now.
AllowedOutcomes ==
  IF crypto_faults < MaxCryptoFaults THEN CryptoOutcomes ELSE {"ok"}

\* Matching is entered: the locals are fresh and the counter is reset.
MatchingEnter ==
  /\ pc = "idle"
  /\ \E files \in KeyFileLists : key_files' = files
  /\ file_idx' = 1
  /\ matched_keys' = << >>
  /\ last_processed_key_count' = 0
  /\ pc' = "for"
  /\ returned' = NoReturn
  /\ yielded' = << >>
  /\ derived' = << >>
  /\ crypto_faults' = 0
  /\ derivations' = << >>
  /\ legacy_call' = NoCall
  /\ opened' = << >>
  /\ UNCHANGED <<mapvars, probevars, aesInputStorage, context, key, itervars>>

\* fopen that succeeds: one more FILE, not closed yet.
fopen(files, key_file) == Append(files, [key_file |-> key_file, fclose |-> 0])

\* fclose(file): one more fclose call on that FILE.
fclose(files, file) == [files EXCEPT ![file].fclose = @ + 1]

\* The for loop takes the next file: CreateKeyFileIterator.  A file that
\* cannot be opened or whose header does not verify gives no iterator and the
\* loop continues; otherwise the iterator's constructor starts its scan.
CreateKeyFileIterator ==
  /\ pc = "for"
  /\ file_idx <= Len(key_files)
  /\ IF ~CurrentFile.openable
       THEN /\ file_idx' = file_idx + 1
            /\ UNCHANGED <<pc, itervars, opened>>
       ELSE \E h \in {VerifyHeader(CurrentFile, CreatePbInputStream)} :
              IF ~h.ok
                THEN /\ opened' = fclose(fopen(opened, key_files[file_idx]),
                                         Len(opened) + 1)
                     /\ file_idx' = file_idx + 1
                     /\ UNCHANGED <<pc, itervars>>
                ELSE /\ opened' = fopen(opened, key_files[file_idx])
                     /\ file_' = Len(opened) + 1
                     /\ pb_istream_' = h.st
                     /\ next_tag_' = 0
                     /\ pc' = "ctor_scan"
                     /\ UNCHANGED file_idx
  /\ UNCHANGED <<mapvars, probevars, helpervars, key_files, matched_keys, key, histvars>>

\* One pass of the loop of ReadUntilNextKeyTagOrEnd, called by the
\* constructor or by ReadNextKey after a key was decoded.  When the loop
\* ends in ReadNextKey, Next() returns the key to Matching.
ReadUntilNextKeyTagOrEnd ==
  /\ pc \in {"ctor_scan", "next_scan"}
  /\ \E r \in {ReadUntilNextKeyTagOrEndPass(CurrentFile, pb_istream_)} :
       /\ next_tag_' = r.next_tag
       /\ pb_istream_' = r.st
       /\ pc' = IF r.again THEN pc
                ELSE IF pc = "ctor_scan" THEN "while" ELSE "body"
       /\ yielded' = IF ~r.again /\ pc = "next_scan"
                       THEN Append(yielded, [key |-> key, file |-> file_idx])
                       ELSE yielded
  /\ UNCHANGED <<mapvars, probevars, helpervars, key_files, file_idx, matched_keys,
                 key, returned, derived, crypto_faults, derivations, legacy_call,
                 file_, opened>>

HasNext == next_tag_ # 0

\* KeyCountAfter with the null check left out.
KeyCountAfter_CountsNull(count, is_null) == count + 1

\* if (key.get() == nullptr) continue;  last_processed_key_count++;
KeyCountAfter(count, is_null) == IF is_null THEN count ELSE count + 1

\* while (key_file_iterator->HasNext()): the loop ends and the iterator is
\* destroyed, or Next() is called: ReadNextKey returns nullptr at once when
\* next_tag_ is not the keys tag or when pb_decode_delimited fails (Matching
\* continues the loop), and otherwise goes on to scan for the next keys tag.
WhileHasNext ==
  /\ pc = "while"
  /\ IF ~HasNext
       THEN /\ pc' = "for"
            /\ file_idx' = file_idx + 1
            /\ pb_istream_' = NoStream
            /\ next_tag_' = 0
            /\ opened' = fclose(opened, file_)
            /\ file_' = 0
            /\ UNCHANGED <<key, last_processed_key_count>>
       ELSE IF ~IsTagForKeys(next_tag_)
         THEN /\ last_processed_key_count' = KeyCountAfter(last_processed_key_count, TRUE)
              /\ UNCHANGED <<pc, file_idx, pb_istream_, next_tag_, key, file_, opened>>
       ELSE \E d \in {pb_decode_delimited(CurrentFile, pb_istream_,
                                           TemporaryExposureKeyNano_init_default)} :
              /\ pb_istream_' = d.st
              /\ key' = IF d.ok THEN d.key ELSE key
              /\ pc' = IF d.ok THEN "next_scan" ELSE "while"
              /\ last_processed_key_count' =
                   IF d.ok THEN last_processed_key_count
                   ELSE KeyCountAfter(last_processed_key_count, TRUE)
              /\ UNCHANGED <<file_idx, next_tag_, file_, opened>>
  /\ UNCHANGED <<mapvars, probevars, aesInputStorage, context, key_files, matched_keys,
                 histvars>>

\* The body of the while loop for a key that is not null: count it, derive
\* its identifiers, probe them, keep the key at the first hit.
\* What one GenerateIds call was given and did.  plaintext is the buffer handed
\* to EVP_EncryptUpdate, << >> when the call returned before reaching it.
Derivation(diagnosis_key, rolling_start_number, outcome, g) ==
  [diagnosis_key |-> diagnosis_key,
   rolling_start_number |-> rolling_start_number,
   outcome |-> outcome,
   plaintext |-> IF outcome \in {"HKDF", "EVP_EncryptInit_ex"} THEN << >> ELSE g.storage,
   ids |-> g.ids]

ProcessKey ==
  /\ pc = "body"
  /\ \E outcome \in AllowedOutcomes :
       \E g \in {GenerateIds(aesInputStorage, context, KeyBytes(key),
                             U32(key.rolling_start_interval_number), outcome)} :
          /\ aesInputStorage' = g.storage
          /\ context' = g.ctx
          /\ matched_keys' =
               IF g.ok
                 THEN ProbeIds(scan_records, prefix_end_index, g.ids, matched_keys, key)
                 ELSE matched_keys
          /\ derived' = Append(derived, g.ok)
          /\ crypto_faults' = IF g.ok THEN crypto_faults ELSE crypto_faults + 1
          /\ derivations' = << Derivation(KeyBytes(key), key.rolling_start_interval_number,
                                          outcome, g) >>
  /\ last_processed_key_count' = KeyCountAfter(last_processed_key_count, FALSE)
  /\ key' = TemporaryExposureKeyNano_init_default
  /\ pc' = "while"
  /\ UNCHANGED <<mapvars, probevars, key_files, file_idx, itervars, returned, yielded,
                 legacy_call, opened>>

\* The for loop is over: nullptr when nothing matched, else the matched
\* keys, each encoded.
MatchingReturn ==
  /\ pc = "for"
  /\ file_idx > Len(key_files)
  /\ returned' = [call |-> "Matching",
                  null |-> Len(matched_keys) = 0,
                  keys |-> [i \in 1..Len(matched_keys) |->
                              EncodeTemporaryExposureKey(matched_keys[i])],
                  indexes |-> << >>]
  /\ matched_keys' = << >>
  /\ pc' = "idle"
  /\ UNCHANGED <<mapvars, probevars, helpervars, key_files, file_idx, key, itervars,
                 yielded, derived, crypto_faults, derivations, legacy_call, opened>>

\* The loop of MatchingLegacy leaving at the first GenerateIds that fails.
RECURSIVE LegacyLoop_StopsAtFailure(_, _, _, _, _, _, _)
LegacyLoop_StopsAtFailure(call, i, storage, ctx, match_indexes, outcomes, log) ==
  IF i >= call.key_count
    THEN [storage |-> storage, ctx |-> ctx, match_indexes |-> match_indexes, log |-> log]
    ELSE With(GenerateIds(storage, ctx, call.diagnosis_keys[i + 1],
                          U32(call.rolling_start_numbers[i + 1]), outcomes[i + 1]),
           LAMBDA g :
             With(Append(log, Derivation(call.diagnosis_keys[i + 1],
                                         call.rolling_start_numbers[i + 1],
                                         outcomes[i + 1], g)),
               LAMBDA logged :
                 IF g.ok
                   THEN LegacyLoop_StopsAtFailure(
                          call, i + 1, g.storage, g.ctx,
                          ProbeIds(scan_records, prefix_end_index, g.ids, match_indexes, i),
                          outcomes, logged)
                   ELSE [storage |-> g.storage, ctx |-> g.ctx,
                         match_indexes |-> match_indexes, log |-> logged]))

\* for (int i = 0; i < key_count; i++) of MatchingLegacy, from key i on.
RECURSIVE LegacyLoop(_, _, _, _, _, _, _)
LegacyLoop(call, i, storage, ctx, match_indexes, outcomes, log) ==
  IF i >= call.key_count
    THEN [storage |-> storage, ctx |-> ctx, match_indexes |-> match_indexes, log |-> log]
    ELSE With(GenerateIds(storage, ctx, call.diagnosis_keys[i + 1],
                          U32(call.rolling_start_numbers[i + 1]), outcomes[i + 1]),
           LAMBDA g :
             With(IF g.ok
                    THEN ProbeIds(scan_records, prefix_end_index, g.ids,
                                  match_indexes, i)
                    ELSE match_indexes,
               LAMBDA found :
                 LegacyLoop(call, i + 1, g.storage, g.ctx, found, outcomes,
                            Append(log, Derivation(call.diagnosis_keys[i + 1],
                                                   call.rolling_start_numbers[i + 1],
                                                   outcomes[i + 1], g)))))

Faults(outcomes) == Cardinality({ i \in DOMAIN outcomes : outcomes[i] # "ok" })

\* MatchingLegacy, a call with no step the host can see inside.  What is
\* remembered of the Matching call before it is dropped; the member
\* last_processed_key_count is not.
MatchingLegacy ==
  /\ pc = "idle"
  /\ \E call \in LegacyCalls :
       IF \/ call.key_count > Len(call.diagnosis_keys)
          \/ call.key_count > Len(call.rolling_start_numbers)
         THEN /\ returned' = [call |-> "MatchingLegacy", null |-> TRUE,
                              keys |-> << >>, indexes |-> << >>]
              /\ derivations' = << >>
              /\ legacy_call' = call
              /\ UNCHANGED <<aesInputStorage, context>>
         ELSE \E outcomes \in [1..call.key_count -> CryptoOutcomes] :
                /\ Faults(outcomes) <= MaxCryptoFaults
                /\ \E r \in {LegacyLoop(call, 0, aesInputStorage, context, << >>,
                                         outcomes, << >>)} :
                      /\ derivations' = r.log
                      /\ legacy_call' = call
                      /\ aesInputStorage' = r.storage
                      /\ context' = r.ctx
                      /\ returned' = [call |-> "MatchingLegacy",
                                      null |-> Len(r.match_indexes) = 0,
                                      keys |-> << >>,
                                      indexes |-> r.match_indexes]
  /\ key_files' = << >>
  /\ file_idx' = 0
  /\ yielded' = << >>
  /\ derived' = << >>
  /\ crypto_faults' = 0
  /\ opened' = << >>
  /\ UNCHANGED <<mapvars, probevars, last_processed_key_count, pc, matched_keys, key,
                 itervars>>

Next ==
  \/ MatchingEnter
  \/ CreateKeyFileIterator
  \/ ReadUntilNextKeyTagOrEnd
  \/ WhileHasNext
  \/ ProcessKey
  \/ MatchingReturn
  \/ MatchingLegacy

Spec == Init /\ [][Next]_vars

\* ------------------------------------------------------------ claims
InputHas(id) == \E i \in 1..Len(ble_scan_records) : ble_scan_records[i] = id

PrefixOf(i) == GetPrefix(scan_records[i + 1])

\* C3: a probe with an identifier of the constructor's input returns an
\* index holding that identifier; a probe with any other identifier returns
\* -1, whether or not its prefix is the prefix of some record.
C3_FindExact ==
  \A k \in 1..Len(probe) :
    IF InputHas(probe[k].id)
      THEN /\ probe[k].ret \in 0..scan_record_size - 1
           /\ scan_records[probe[k].ret + 1] = probe[k].id
      ELSE probe[k].ret = -1

\* C3 witness: the input holds the probed identifier twice and another
\* record of the same prefix, and the probe found it.
C3_Witness ==
  /\ Len(probe) = 1
  /\ Cardinality({ i \in 1..Len(ble_scan_records) : ble_scan_records[i] = probe[1].id }) = 2
  /\ \E i \in 1..Len(ble_scan_records) :
        /\ ble_scan_records[i] # probe[1].id
        /\ GetPrefix(ble_scan_records[i]) = GetPrefix(probe[1].id)
  /\ probe[1].ret >= 0

\* C4: prefix_end_index is non-decreasing, entry p counts the records of
\* prefix <= p, the last entry is the number of records, and the records at
\* [prefix_end_index[p-1], prefix_end_index[p]) have prefix exactly p.
C4_PrefixTable ==
  LET n == Len(ble_scan_records)
      lo(p) == IF p = 0 THEN 0 ELSE prefix_end_index[p - 1]
  IN /\ DOMAIN prefix_end_index = 0..kIdPrefixIndexSize - 1
     /\ \A p \in 0..kIdPrefixIndexSize - 1 :
          /\ lo(p) <= prefix_end_index[p]
          /\ prefix_end_index[p] =
               Cardinality({ i \in 1..n : GetPrefix(ble_scan_records[i]) <= p })
          /\ \A i \in lo(p)..prefix_end_index[p] - 1 : PrefixOf(i) = p
     /\ prefix_end_index[kIdPrefixIndexSize - 1] = n
     /\ Len(scan_records) = n

\* C4 witness: records of prefix 0 and of the greatest prefix, with an empty
\* prefix between them.
C4_Witness ==
  /\ \E i \in 1..Len(scan_records) : GetPrefix(scan_records[i]) = 0
  /\ \E i \in 1..Len(scan_records) :
        GetPrefix(scan_records[i]) = kIdPrefixIndexSize - 1
  /\ \E p \in 1..kIdPrefixIndexSize - 2 :
        prefix_end_index[p] = prefix_end_index[p - 1]
  /\ Len(scan_records) = MaxRecords

\* The steps of a running Matching call.
MatchingStep ==
  \/ CreateKeyFileIterator
  \/ ReadUntilNextKeyTagOrEnd
  \/ WhileHasNext
  \/ ProcessKey
  \/ MatchingReturn

\* The same state graph with the scheduler's guarantee: a Matching call that
\* can take a step that changes the state takes one.  The host need not call
\* again.
FairSpec == Spec /\ WF_vars(MatchingStep)

\* Matching has returned and no other call was made since.
MatchingReturned == pc = "idle" /\ returned.call = "Matching"

\* One of the 144 identifiers of the key, those of the intervals
\* rolling_start .. rolling_start + 143, is among the scan records.
Hits(tek) ==
  \E i \in 0..kIdPerKey - 1 :
    InputHas(Rpi(KeyBytes(tek), tek.rolling_start_interval_number + i))

\* The yielded occurrences that were derived and hit, in the order yielded.
MatchedOccurrences ==
  SelectSeq([k \in 1..Len(yielded) |-> k],
            LAMBDA k : derived[k] /\ Hits(yielded[k].key))

\* C1: a key yielded during Matching is in the returned list if and only if
\* an occurrence of it was derived without failure and one of the
\* identifiers of its 144 intervals is a scan record; the list is null when
\* it is empty.
C1_MatchIffRpiInScan ==
  MatchingReturned =>
    /\ Len(derived) = Len(yielded)
    /\ returned.null = (returned.keys = << >>)
    /\ \A k \in 1..Len(yielded) :
         (\E m \in 1..Len(returned.keys) :
            returned.keys[m] = EncodeTemporaryExposureKey(yielded[k].key))
         <=> (\E j \in 1..Len(yielded) :
                /\ yielded[j].key = yielded[k].key
                /\ derived[j]
                /\ Hits(yielded[j].key))
    /\ \A m \in 1..Len(returned.keys) :
         \E k \in 1..Len(yielded) :
           returned.keys[m] = EncodeTemporaryExposureKey(yielded[k].key)

\* C1 witness: the key published with start 144 was derived, the scan
\* records hold its identifier of interval 72, and nothing matched.
C1_Witness ==
  /\ MatchingReturned
  /\ Len(yielded) = 1
  /\ yielded[1].key = Tek(KeyA, kIdPerKey)
  /\ derived = <<TRUE>>
  /\ InputHas(Rpi(KeyA, 72))
  /\ returned.null

\* C2: the returned list is the yielded sequence restricted to the
\* occurrences that matched: in the order consumed, one entry for each such
\* occurrence, however many of its identifiers hit.
C2_ResultInConsumedOrder ==
  MatchingReturned =>
    returned.keys =
      [m \in 1..Len(MatchedOccurrences) |->
         EncodeTemporaryExposureKey(yielded[MatchedOccurrences[m]].key)]

\* C2 witness: one file holds the same key twice, two of its identifiers are
\* scan records and one of them twice, and the result holds the key twice.
C2_Witness ==
  /\ MatchingReturned
  /\ Len(yielded) = 2
  /\ yielded[1].key = yielded[2].key
  /\ Len(returned.keys) = 2
  /\ returned.keys[1] = returned.keys[2]
  /\ \E i, j \in 1..Len(ble_scan_records) :
        i # j /\ ble_scan_records[i] = ble_scan_records[j]
  /\ InputHas(Rpi(KeyA, 72)) /\ InputHas(Rpi(KeyA, 73))

\* C5: last_processed_key_count is 0 before any Matching call and is the
\* number of keys yielded so far in the latest Matching call (the key in the
\* loop body is counted there), whether or not they were derived; a record
\* that failed to decode yields nothing and counts nothing; a MatchingLegacy
\* call leaves the counter as it was.
C5_CountsYieldedKeys ==
  /\ [](returned.call # "MatchingLegacy" =>
          last_processed_key_count = Len(yielded) - (IF pc = "body" THEN 1 ELSE 0))
  /\ [][returned'.call = "MatchingLegacy" =>
          last_processed_key_count' = last_processed_key_count]_vars

\* C5 witness: Matching counted two keys, and the MatchingLegacy call made
\* after it returned matches with the counter still at 2.
C5_Witness ==
  /\ pc = "idle"
  /\ returned.call = "MatchingLegacy"
  /\ ~returned.null
  /\ last_processed_key_count = 2

\* The file is one fopen fails on, or one whose first 16 octets are not the
\* literal, a file of fewer than 16 octets included.
BadSource(name) ==
  \/ ~FileSystem[name].openable
  \/ Len(FileSystem[name].bytes) < kFileHeaderSize
  \/ \E i \in 1..kFileHeaderSize : FileSystem[name].bytes[i] # kFileHeader[i]

\* C8: no key is ever yielded from a source that cannot be opened or whose
\* header differs, and the step of Matching on such a source changes nothing
\* but the position in the list: the matched keys, the counter, the engine's
\* buffers and the yielded keys are those of the call without that source.
C8_BadSourceSkipped ==
  /\ [](\A k \in 1..Len(yielded) : ~BadSource(key_files[yielded[k].file]))
  /\ [][(/\ pc = "for"
         /\ file_idx <= Len(key_files)
         /\ BadSource(key_files[file_idx]))
        => (/\ pc' = "for"
            /\ file_idx' = file_idx + 1
            /\ UNCHANGED <<matched_keys, helpervars, itervars, key_files, histvars>>)]_vars

\* C8 witness: Matching returned a match from the second source after a
\* first source that is bad, with one key counted.
C8_Witness ==
  /\ MatchingReturned
  /\ Len(key_files) = 2
  /\ BadSource(key_files[1])
  /\ ~returned.null
  /\ last_processed_key_count = 1
  /\ yielded[1].file = 2

\* The files whose octets are the header and then their records, whole.
Intact == {"a", "a144", "ab", "aa", "other", "empty", "corrupt"}

\* The files all of whose records are well formed.
WellFormed == Intact \ {"corrupt"}

\* The offsets just past the tag of each keys-tagged record of a file.
KeyStarts(name) ==
  { kFileHeaderSize + Len(PartsOctets(Parts[name], i - 1)) + 1 :
      i \in { j \in 1..Len(Parts[name]) : Parts[name][j].tagged } }

\* C9: whenever the constructor or a Next() that returned a key has
\* finished, HasNext() holds exactly when next_tag_ is the keys tag, and
\* next_tag_ is otherwise 0; in a well-formed file the stream is then just
\* past the tag of a keys record, or past all of them when HasNext() is
\* false; and an iterator whose HasNext() is false does not get it back.
C9_HasNextIffKeysTag ==
  /\ [](pc \in {"while", "body"} =>
          /\ HasNext <=> IsTagForKeys(next_tag_)
          /\ ~HasNext => next_tag_ = 0
          /\ key_files[file_idx] \in WellFormed =>
               IF HasNext
                 THEN pb_istream_.pos \in KeyStarts(key_files[file_idx])
                 ELSE \A p \in KeyStarts(key_files[file_idx]) : p < pb_istream_.pos)
  /\ [][(pc \in {"while", "body"} /\ ~HasNext /\ pc' \in {"while", "body"})
          => ~HasNext']_vars

\* C9 witness: the last key of a file with two keys records and other fields
\* was returned, and HasNext() is false with next_tag_ 0.
C9_Witness ==
  /\ pc = "body"
  /\ key_files[file_idx] = "other"
  /\ Len(yielded) = 2
  /\ next_tag_ = 0
  /\ ~HasNext

\* The keys yielded from the file at position i of the list.
YieldedFrom(i) ==
  LET from == SelectSeq(yielded, LAMBDA y : y.file = i)
  IN [k \in 1..Len(from) |-> from[k].key]

\* The keys of the keys records among the first count records.
RECURSIVE KeysOf(_, _)
KeysOf(parts, count) ==
  IF count = 0 THEN << >> ELSE KeysOf(parts, count - 1) \o parts[count].keys

\* C10: once the iterator of a well-formed file is done, the keys yielded
\* from it are the keys of its keys records, in order, whatever other fields
\* stand before, between and after them; the file with such fields of every
\* wire type yields what the file without them yields.
C10_OtherFieldsIgnored ==
  \A i \in 1..Len(key_files) :
    (file_idx > i /\ key_files[i] \in WellFormed) =>
      /\ YieldedFrom(i) = KeysOf(Parts[key_files[i]], Len(Parts[key_files[i]]))
      /\ key_files[i] = "other" => YieldedFrom(i) = KeysOf(Parts["ab"], Len(Parts["ab"]))

\* C10 witness: the file with other fields before, between and after its two
\* keys records is done and two keys were yielded from it.
C10_Witness ==
  /\ key_files = <<"other">>
  /\ file_idx = 2
  /\ Len(YieldedFrom(1)) = 2
  /\ Len(Parts["other"]) = 8

\* C6: when Matching is about to call Next() on an intact file, one of whose
\* keys records may be cut short, the stream is just past the tag of a keys
\* record: after a record that failed to decode the iterator is at the next
\* keys tag.
C6_ResumesAtNextKeysTag ==
  (pc = "while" /\ HasNext /\ key_files[file_idx] \in Intact) =>
    pb_istream_.pos \in KeyStarts(key_files[file_idx])

\* C7: once a read of the file has failed, the iterator is closed, Matching
\* goes to the next source, and Matching returns.
C7_ReadFailureEndsSource ==
  pb_istream_.err ~> (pb_istream_ = NoStream /\ pc \in {"for", "idle"})

\* The block of interval n: "EN-RPI", six zero octets, n as a little-endian
\* uint32_t.
PaddedBlock(n) == <<69, 78, 45, 82, 80, 73, 0, 0, 0, 0, 0, 0>> \o U32(n)

\* C11: whatever calls came before, successful or failed, the buffer that
\* GenerateIds hands to EVP_EncryptUpdate for key t and start s holds in block
\* i of 0..143 "EN-RPI", six zero octets and the little-endian (s + i) mod
\* 2^32; the first twelve octets of every block of aesInputStorage are never
\* changed; and the identifiers of a successful call are those of (t, s).
C11_PlaintextFromKeyAndStart ==
  /\ \A i \in 1..kIdPerKey :
       SubSeq(aesInputStorage[i], 1, 12) = SubSeq(PaddedBlock(0), 1, 12)
  /\ \A d \in 1..Len(derivations) :
       /\ derivations[d].outcome \in {"ok", "EVP_EncryptUpdate"}
            => \A i \in 1..kIdPerKey :
                 derivations[d].plaintext[i]
                   = PaddedBlock(derivations[d].rolling_start_number + i - 1)
       /\ derivations[d].outcome = "ok"
            => \A i \in 1..kIdPerKey :
                 derivations[d].ids[i]
                   = Rpi(derivations[d].diagnosis_key,
                         derivations[d].rolling_start_number + i - 1)

\* C11 witness: MatchingLegacy derived a key with start 0 right after a key
\* with another start whose encryption failed after the buffer was written.
C11_Witness ==
  /\ returned.call = "MatchingLegacy"
  /\ Len(derivations) = 2
  /\ derivations[1].outcome = "EVP_EncryptUpdate"
  /\ derivations[1].rolling_start_number = kIdPerKey
  /\ derivations[2].outcome = "ok"
  /\ derivations[2].rolling_start_number = 0

\* MatchingLegacy has returned, no other call was made since, and it got past
\* its two length checks: the keys it was given are the first key_count
\* entries of the two arrays.
LegacyReturned ==
  /\ pc = "idle"
  /\ returned.call = "MatchingLegacy"
  /\ legacy_call.key_count <= Len(legacy_call.diagnosis_keys)
  /\ legacy_call.key_count <= Len(legacy_call.rolling_start_numbers)

\* One of the 144 identifiers of entry i (from 0) of the call is among the
\* scan records.
LegacyHits(i) ==
  \E j \in 0..kIdPerKey - 1 :
    InputHas(Rpi(legacy_call.diagnosis_keys[i + 1],
                 legacy_call.rolling_start_numbers[i + 1] + j))

\* C12: MatchingLegacy returns exactly the indices i of the keys whose
\* derivation succeeded and one of whose 144 identifiers is a scan record, in
\* strictly increasing order, each at most once, all in 0 .. key_count - 1.
C12_LegacyIndexes ==
  LegacyReturned =>
    /\ Len(derivations) = legacy_call.key_count
    /\ { returned.indexes[k] : k \in 1..Len(returned.indexes) }
         = { i \in 0..legacy_call.key_count - 1 :
               derivations[i + 1].outcome = "ok" /\ LegacyHits(i) }
    /\ \A k \in 1..Len(returned.indexes) - 1 :
         returned.indexes[k] < returned.indexes[k + 1]
    /\ \A k \in 1..Len(returned.indexes) :
         returned.indexes[k] \in 0..legacy_call.key_count - 1
    /\ returned.null = (returned.indexes = << >>)

\* C12 witness: both keys of a call matched, the first one only by the last
\* of its 144 identifiers.
C12_Witness ==
  /\ LegacyReturned
  /\ returned.indexes = <<0, 1>>
  /\ ~InputHas(Rpi(legacy_call.diagnosis_keys[1], 0))
  /\ InputHas(Rpi(legacy_call.diagnosis_keys[1], kIdPerKey - 1))

\* The declared key count, the number of diagnosis keys and the number of
\* rolling start numbers of the last MatchingLegacy call do not all agree.
LengthsMismatch ==
  \/ legacy_call.key_count # Len(legacy_call.diagnosis_keys)
  \/ legacy_call.key_count # Len(legacy_call.rolling_start_numbers)

\* C13: a MatchingLegacy call whose declared key count, number of diagnosis
\* keys and number of rolling start numbers do not all agree returns an empty
\* result and derives no key.
C13_MismatchAborts ==
  (pc = "idle" /\ returned.call = "MatchingLegacy" /\ LengthsMismatch)
    => (returned.null /\ returned.indexes = << >> /\ derivations = << >>)

\* The positions (from 1) of the keys of the last MatchingLegacy call whose
\* derivation succeeded, and the call with only those keys.
Kept ==
  SelectSeq([i \in 1..Len(derivations) |-> i], LAMBDA i : derivations[i].outcome = "ok")

KeptCall ==
  [diagnosis_keys |-> [k \in 1..Len(Kept) |-> legacy_call.diagnosis_keys[Kept[k]]],
   rolling_start_numbers |->
     [k \in 1..Len(Kept) |-> legacy_call.rolling_start_numbers[Kept[k]]],
   key_count |-> Len(Kept)]

\* What MatchingLegacy returns for KeptCall on this engine when nothing fails.
KeptRun ==
  LegacyLoop(KeptCall, 0, InitialStorage, << >>, << >>,
             [k \in 1..Len(Kept) |-> "ok"], << >>).match_indexes

\* C14: a crypto failure while a key is derived skips that key and nothing
\* else.  In Matching the step that derives a key whose GenerateIds fails adds
\* nothing to the matched keys, even when an identifier of the key is a scan
\* record, and leaves the loop where it was; a step whose GenerateIds succeeds
\* adds the key exactly when one of its identifiers is a scan record, whatever
\* failed before.  In MatchingLegacy every key of the call is derived, no
\* failed key is returned, and the indices returned are those of the call
\* without the failed keys.
C14_FailureSkipsOneKey ==
  /\ [][(pc = "body" /\ pc' = "while")
         => IF derivations'[1].outcome = "ok"
              THEN matched_keys' = IF Hits(key) THEN Append(matched_keys, key)
                                   ELSE matched_keys
              ELSE /\ matched_keys' = matched_keys
                   /\ derivations'[1].ids = << >>
                   /\ UNCHANGED <<file_idx, key_files, itervars, yielded>>]_vars
  /\ [](LegacyReturned =>
          /\ Len(derivations) = legacy_call.key_count
          /\ \A k \in 1..Len(returned.indexes) :
               derivations[returned.indexes[k] + 1].outcome = "ok"
          /\ returned.indexes
               = [k \in 1..Len(KeptRun) |-> Kept[KeptRun[k] + 1] - 1])

\* C14 witness: Matching returned the second of two keys that both have an
\* identifier among the scan records, the derivation of the first one having
\* failed.
C14_Witness ==
  /\ MatchingReturned
  /\ Len(yielded) = 2
  /\ derived = <<FALSE, TRUE>>
  /\ Hits(yielded[1].key)
  /\ Hits(yielded[2].key)
  /\ Len(returned.keys) = 1

\* The FILEs of the last Matching call that are open now.
OpenNow == { h \in 1..Len(opened) : opened[h].fclose = 0 }

OneOpenAtMost == Cardinality(OpenNow) <= 1

NoDoubleClose == \A h \in 1..Len(opened) : opened[h].fclose <= 1

NoneOpenAtReturn == MatchingReturned => OpenNow = {}

\* C15: every file Matching opens is closed exactly once on every path: at
\* most one file is open at any moment, no file is closed twice, no file is
\* open when Matching returns, and a file that is open gets closed.
C15_FilesClosedOnce ==
  /\ []OneOpenAtMost
  /\ []NoDoubleClose
  /\ []NoneOpenAtReturn
  /\ [](OpenNow # {} => <>(OpenNow = {}))

\* Every file of the running call is read without a device error.
ReadsWithoutError ==
  \A i \in 1..Len(key_files) : FileSystem[key_files[i]].err_at = -1

\* C16: Matching terminates on every list of files, also when the last keys
\* record of a file is truncated or fails to decode: a call that is running
\* on files that read without error returns.
C16_MatchingTerminates == (pc # "idle" /\ ReadsWithoutError) ~> (pc = "idle")

====
